---- MODULE Spec2Model ----
(***************************************************************************)
(* helix-term: Application (helix-term/src/application.rs).                *)
(* The model follows run(): claim_term, the panic hook, event_loop with    *)
(* its biased select over six sources, the handlers of each source, the    *)
(* shutdown path, and Application::new's opening of the file arguments.    *)
(***************************************************************************)
EXTENDS Integers, Sequences, FiniteSets, TLC

VARIABLES
    pc,               \* position of run(): see PcValues
    term,             \* the terminal: [raw, alt, mouse]
    panic_hooks,      \* number of terminal-restoring panic hooks installed
    restored,         \* history: restorations run by the panic hooks after a panic
    hook_failed,      \* history: the steps of the panic hook whose I/O failed
    attempted,        \* history: a restoration was attempted since the last claim_term
    suspended,        \* history: a SIGTSTP was handled and no SIGCONT since
    config,           \* [mouse, display_messages]
    term_in,          \* reader: terminal items ready to be read
    signals,          \* self.signals: signals ready to be read
    incoming,         \* editor.language_servers.incoming
    debugger_events,  \* editor.debugger_events
    jobs,             \* job id -> [class, state, calls]
    futures,          \* jobs.futures: completed fire-and-forget jobs, by readiness
    wait_futures,     \* jobs.wait_futures: completed must-await jobs, by readiness
    should_close,     \* editor.should_close()
    debugger,         \* editor.debugger: [attached, is_running, stack_pointer]
    status,           \* editor status line
    running,          \* handlers entered and not yet returned
    last,             \* history: the last selection, see Selection
    now,              \* Instant::now(), in ticks
    last_render,      \* event_loop's last_render
    burst,            \* history: the current run of LSP calls, see NoBurst
    documents,        \* editor.documents: path -> [open, ls, text, diagnostics]
    servers,          \* editor.language_servers: the registered server ids
    lsp_progress,     \* self.lsp_progress: server -> token -> progress status
    spinners,         \* the editor view's spinners: server -> running
    handled,          \* history: the last LSP call handled, with its replies
    twin,             \* the tracker and spinners of the twin run: the same
                      \* calls, display_messages the other way
    args,             \* args.files, as given to Application::new
    opens,            \* history: the editor.open and editor.new_file calls of new()
    picker,           \* new() pushed a file picker on the compositor
    new_error         \* the error new() returned, NoError if none

vars == <<pc, term, panic_hooks, restored, hook_failed, attempted, suspended, config, term_in, signals,
          incoming, debugger_events, jobs, futures, wait_futures, should_close,
          debugger, status, running, last, now, last_render, burst, documents,
          servers, lsp_progress, spinners, handled, twin, args, opens, picker,
          new_error>>

termVars == <<term, panic_hooks, restored, hook_failed, attempted, suspended>>
srcVars  == <<term_in, signals, incoming, debugger_events>>
jobVars  == <<jobs, futures, wait_futures>>
timeVars == <<now, last_render, burst>>
lspVars  == <<documents, servers, lsp_progress, spinners, handled, twin>>
newVars  == <<args, opens, picker, new_error>>

(***************************************************************************)
(* Bounds of the model.                                                    *)
(***************************************************************************)
MaxQueue == 2      \* events queued over all sources at one time
MaxJobs  == 2      \* jobs spawned in one run
MaxTime  == 6      \* clock ticks in one run
MaxBatch == 2      \* diagnostics in one PublishDiagnostics batch
MaxFiles == 3      \* file arguments on the command line

JobIds == 1..MaxJobs

PcValues == {"new", "new_err", "run", "event_loop", "select", "threads",
             "stack_trace", "finish", "close", "ok", "err", "panic", "abort"}

\* run() has returned, or the process has exited after a panic
Final == {"ok", "err", "abort"}

(***************************************************************************)
(* TerminalSession: claim_term, restore_term, the panic hook.              *)
(***************************************************************************)
ClaimSteps   == {"enable_raw_mode", "EnterAlternateScreen", "EnableMouseCapture"}
RestoreSteps == {"write", "DisableMouseCapture", "LeaveAlternateScreen",
                 "disable_raw_mode"}
HookSteps    == {"DisableMouseCapture", "LeaveAlternateScreen", "disable_raw_mode"}

\* claim_term with the I/O failure (if any) at step `fail`: each `?` returns
\* at once, leaving what the earlier steps did
claim_term(t, mouse, fail) ==
    IF fail = "enable_raw_mode"
    THEN [term |-> t, ok |-> FALSE]
    ELSE IF fail = "EnterAlternateScreen"
    THEN [term |-> [t EXCEPT !.raw = TRUE], ok |-> FALSE]
    ELSE IF fail = "EnableMouseCapture" /\ mouse
    THEN [term |-> [t EXCEPT !.raw = TRUE, !.alt = TRUE], ok |-> FALSE]
    ELSE [term |-> [raw |-> TRUE, alt |-> TRUE, mouse |-> t.mouse \/ mouse],
          ok |-> TRUE]

\* restore_term with the I/O failure (if any) at step `fail`
restore_term(t, fail) ==
    IF fail \in {"write", "DisableMouseCapture"}
    THEN [term |-> t, ok |-> FALSE]
    ELSE IF fail = "LeaveAlternateScreen"
    THEN [term |-> [t EXCEPT !.mouse = FALSE], ok |-> FALSE]
    ELSE IF fail = "disable_raw_mode"
    THEN [term |-> [t EXCEPT !.mouse = FALSE, !.alt = FALSE], ok |-> FALSE]
    ELSE [term |-> [raw |-> FALSE, alt |-> FALSE, mouse |-> FALSE], ok |-> TRUE]

\* the panic hook's three statements, each Result ignored; `failed` are the
\* steps whose I/O fails
hook_restore(t, failed) ==
    [raw   |-> t.raw /\ "disable_raw_mode" \in failed,
     alt   |-> t.alt /\ "LeaveAlternateScreen" \in failed,
     mouse |-> t.mouse /\ "DisableMouseCapture" \in failed]

(***************************************************************************)
(* The sources of the select, in the order of its arms.                    *)
(***************************************************************************)
Sources == <<"terminal", "signal", "lsp", "dap", "job", "wait_job">>

SourceSet == {Sources[i] : i \in 1..Len(Sources)}

Ready(s) ==
    CASE s = "terminal" -> term_in # <<>>
      [] s = "signal"   -> signals # <<>>
      [] s = "lsp"      -> incoming # <<>>
      [] s = "dap"      -> debugger_events # <<>>
      [] s = "job"      -> futures # <<>>
      [] s = "wait_job" -> wait_futures # <<>>

ReadySet == {s \in SourceSet : Ready(s)}

Queued == Len(term_in) + Len(signals) + Len(incoming) + Len(debugger_events)

\* an unbiased select: any ready arm may win (here: the last ready one)
select_unbiased ==
    IF ReadySet = {} THEN "none"
    ELSE Sources[CHOOSE i \in 1..Len(Sources) :
             /\ Ready(Sources[i])
             /\ \A j \in 1..Len(Sources) : Ready(Sources[j]) => j <= i]

\* tokio::select! { biased; ... }: the arms are polled top to bottom and the
\* first ready one is taken
select ==
    IF ReadySet = {} THEN "none"
    ELSE Sources[CHOOSE i \in 1..Len(Sources) :
             /\ Ready(Sources[i])
             /\ \A j \in 1..Len(Sources) : Ready(Sources[j]) => i <= j]

\* a select that is polled again while a handler awaits
AtSelectReentrant ==
    pc \in {"select", "threads", "stack_trace"} /\ ~should_close

\* control is at the select of the loop, and the editor is not closing
AtSelect == pc = "select" /\ ~should_close

\* the priority order as documented: a source outranks the ones after it
DocumentedOrder == <<"terminal", "signal", "lsp", "dap", "job", "wait_job">>

Outranks(a, b) ==
    \E i, j \in 1..Len(DocumentedOrder) :
        i < j /\ DocumentedOrder[i] = a /\ DocumentedOrder[j] = b

\* the history record of a selection that called render `n` times:
\* rendered_at is the time of the latest render call of any arm,
\* should_redraw what handle_terminal_events' handler reported, steps the
\* calls of a handle_signals that returned, or the calls of the "stopped"
\* handler with the outcomes of the fallible ones, in order
Selection(s, n) ==
    [src |-> s, contended |-> Cardinality(ReadySet) > 1,
     beaten |-> {t \in ReadySet : Outranks(t, s)}, renders |-> n,
     rendered_at |-> IF n > 0 THEN now ELSE last.rendered_at,
     should_redraw |-> FALSE, steps |-> <<>>]

\* the render before the loop (line 161)
FirstRender ==
    [src |-> "start", contended |-> FALSE, beaten |-> {}, renders |-> 1,
     rendered_at |-> now, should_redraw |-> FALSE, steps |-> <<>>]

(***************************************************************************)
(* Jobs (crate::job::Jobs): two classes of deferred work.                  *)
(***************************************************************************)
NoJob == [class |-> "none", state |-> "none", calls |-> 0]

FreeJobs == {j \in JobIds : jobs[j].state = "none"}

\* Jobs::callback (fire-and-forget) / Jobs::add of a job that waits before
\* exiting: the job starts running beside the loop
spawn(js, class) ==
    IF class = "none" \/ FreeJobs = {} THEN js
    ELSE LET j == CHOOSE k \in FreeJobs : \A m \in FreeJobs : k <= m
         IN  [js EXCEPT ![j] = [class |-> class, state |-> "pending", calls |-> 0]]

\* Jobs::handle_callback: the completion callback of job j is applied to the
\* editor and the compositor
handle_callback(js, j) ==
    [js EXCEPT ![j].state = "done", ![j].calls = @ + 1]

(***************************************************************************)
(* run(): claim the terminal and install the panic hook (lines 591-604).   *)
(***************************************************************************)
Run ==
    /\ pc = "run"
    /\ \E fail \in ClaimSteps \cup {"none"} :
         LET r == claim_term(term, config.mouse, fail)
         IN  /\ term' = r.term
             /\ attempted' = FALSE
             /\ IF r.ok
                THEN pc' = "event_loop" /\ panic_hooks' = panic_hooks + 1
                ELSE pc' = "err" /\ panic_hooks' = panic_hooks
    /\ UNCHANGED <<restored, hook_failed, suspended, config, newVars, srcVars, jobVars, should_close, debugger,
                   status, running, last, timeVars, lspVars>>

\* event_loop before the loop: last_render = now, one render (lines 157-161)
EventLoopStart ==
    /\ pc = "event_loop"
    /\ pc' = "select"
    /\ last_render' = now
    /\ last' = FirstRender
    /\ UNCHANGED <<termVars, config, newVars, srcVars, jobVars, should_close, debugger,
                   status, running, now, burst, lspVars>>

(***************************************************************************)
(* The top of the loop: a close request ends it (lines 164-167).           *)
(***************************************************************************)
\* the loop breaks without waiting for the must-await jobs
CloseCheckNoFinish ==
    /\ pc = "select"
    /\ should_close
    /\ pc' = "close"
    /\ UNCHANGED <<termVars, config, newVars, srcVars, jobVars, should_close, debugger,
                   status, running, last, timeVars, lspVars>>

CloseCheck ==
    /\ pc = "select"
    /\ should_close
    /\ pc' = "finish"
    /\ UNCHANGED <<termVars, config, newVars, srcVars, jobVars, should_close, debugger,
                   status, running, last, timeVars, lspVars>>

\* Jobs::finish: every must-await job resolves and its callback is applied
FinishCallback ==
    /\ pc = "finish"
    /\ wait_futures # <<>>
    /\ jobs' = handle_callback(jobs, Head(wait_futures))
    /\ wait_futures' = Tail(wait_futures)
    /\ UNCHANGED <<pc, termVars, config, newVars, srcVars, futures, should_close, debugger,
                   status, running, last, timeVars, lspVars>>

FinishDone ==
    /\ pc = "finish"
    /\ wait_futures = <<>>
    /\ \A j \in JobIds : ~(jobs[j].class = "wait" /\ jobs[j].state = "pending")
    /\ pc' = "close"
    /\ UNCHANGED <<termVars, config, newVars, srcVars, jobVars, should_close, debugger,
                   status, running, last, timeVars, lspVars>>

\* after the loop: close_language_servers (a timeout is only logged), then
\* restore_term()? (lines 608-614)
Close ==
    /\ pc = "close"
    /\ \E fail \in RestoreSteps \cup {"none"} :
         LET r == restore_term(term, fail)
         IN  /\ term' = r.term
             /\ pc' = IF r.ok THEN "ok" ELSE "err"
    /\ attempted' = TRUE
    /\ UNCHANGED <<panic_hooks, restored, hook_failed, suspended, config, newVars, srcVars, jobVars, should_close,
                   debugger, status, running, last, timeVars, lspVars>>

(***************************************************************************)
(* A panic: the hooks run, then the process exits (lines 595-604).         *)
(***************************************************************************)
\* a hook that only delegates to the previous hook
PanicHookNoRestore ==
    /\ pc = "panic"
    /\ pc' = "abort"
    /\ UNCHANGED <<termVars, config, newVars, srcVars, jobVars, should_close, debugger,
                   status, running, last, timeVars, lspVars>>

PanicHook ==
    /\ pc = "panic"
    /\ pc' = "abort"
    /\ IF panic_hooks = 0
       THEN UNCHANGED <<term, restored, hook_failed, attempted>>
       ELSE /\ \E failed \in SUBSET HookSteps :
                 /\ term' = hook_restore(term, failed)
                 /\ hook_failed' = failed
            /\ restored' = restored + panic_hooks
            /\ attempted' = TRUE
    /\ UNCHANGED <<panic_hooks, suspended, config, newVars, srcVars, jobVars, should_close,
                   debugger, status, running, last, timeVars, lspVars>>

(***************************************************************************)
(* Arm 1: terminal input, handle_terminal_events (lines 174-176, 298-320). *)
(***************************************************************************)
\* a handler that takes the end of the input stream for one more event
input_ignored(event) == FALSE

\* lines 312-313: an error of the input stream and its end both panic
input_panics(event) == event \in {"err", "eof"}

\* a handler that renders after every event
redraw_always(should_redraw, closing) == TRUE

\* lines 317-319: render if the handler asked for it and the editor is not
\* closing
redraw(should_redraw, closing) == should_redraw /\ ~closing

\* a compositor whose commands resume the debuggee
handle_event_resumes(d) == [d EXCEPT !.is_running = TRUE]

\* compositor.handle_event and the DebuggerState: not among its mutators
handle_event(d) == d

\* compositor.handle_event is outside this file: it reports whether to redraw,
\* may close the last view and may spawn a job of either class
TerminalEvent ==
    /\ AtSelect
    /\ select = "terminal"
    /\ term_in' = Tail(term_in)
    /\ IF input_panics(Head(term_in))
       THEN /\ pc' = "panic"
            /\ last' = Selection("terminal", 0)
            /\ UNCHANGED <<jobs, should_close, debugger>>
       ELSE \E should_redraw \in BOOLEAN, close \in BOOLEAN,
               class \in {"none", "ff", "wait"} :
                /\ should_close' = close
                /\ jobs' = spawn(jobs, class)
                /\ last' = [Selection("terminal",
                                      IF redraw(should_redraw, close) THEN 1 ELSE 0)
                             EXCEPT !.should_redraw = should_redraw]
                /\ pc' = "select"
                /\ debugger' = handle_event(debugger)
    /\ UNCHANGED <<termVars, config, newVars, signals, incoming, debugger_events, futures,
                   wait_futures, status, running, timeVars, lspVars>>

(***************************************************************************)
(* Arm 2: OS signals, handle_signals (lines 177-179, 278-296).             *)
(***************************************************************************)
\* the calls of the SIGTSTP branch, in order (lines 282-284)
suspend_steps == <<"save_cursor", "restore_term", "emulate_default_handler">>

\* a SIGCONT branch that renders before it claims the terminal
resume_steps_render_first == <<"render", "claim_term", "resize", "load_cursor">>

\* the calls of the SIGCONT branch, in order (lines 287-292)
resume_steps == <<"claim_term", "resize", "load_cursor", "render">>

\* SIGTSTP: restore_term().unwrap(), then the default handler stops the
\* process; it runs again only on a SIGCONT, which the signal stream queues
Suspend ==
    /\ AtSelect
    /\ select = "signal"
    /\ Head(signals) = "SIGTSTP"
    /\ attempted' = TRUE
    /\ \E fail \in RestoreSteps \cup {"none"}, emulate_ok \in BOOLEAN :
         LET r == restore_term(term, fail)
         IN  /\ term' = r.term
             /\ IF r.ok /\ emulate_ok
                THEN /\ pc' = "select"
                     /\ signals' = Append(Tail(signals), "SIGCONT")
                     /\ suspended' = TRUE
                ELSE /\ pc' = "panic"
                     /\ signals' = Tail(signals)
                     /\ UNCHANGED suspended
             /\ last' = [Selection("signal", 0) EXCEPT
                            !.steps = IF r.ok /\ emulate_ok
                                      THEN suspend_steps ELSE <<>>]
    /\ UNCHANGED <<panic_hooks, restored, hook_failed, config, newVars, term_in, incoming,
                   debugger_events, jobVars, should_close, debugger, status,
                   running, timeVars, lspVars>>

\* SIGCONT: claim_term().await.unwrap(), resize, load_cursor, render
Resume ==
    /\ AtSelect
    /\ select = "signal"
    /\ Head(signals) = "SIGCONT"
    /\ signals' = Tail(signals)
    /\ attempted' = FALSE
    /\ suspended' = FALSE
    /\ \E fail \in ClaimSteps \cup {"none"} :
         LET r == claim_term(term, config.mouse, fail)
         IN  /\ term' = r.term
             /\ IF r.ok
                THEN /\ pc' = "select"
                     /\ last' = [Selection("signal", 1) EXCEPT
                                    !.steps = resume_steps]
                ELSE /\ pc' = "panic"
                     /\ last' = Selection("signal", 0)
    /\ UNCHANGED <<panic_hooks, restored, hook_failed, config, newVars, term_in, incoming,
                   debugger_events, jobVars, should_close, debugger, status,
                   running, timeVars, lspVars>>

(***************************************************************************)
(* Arm 3: LSP calls, handle_language_server_message (lines 326-569).       *)
(***************************************************************************)
ServerIds == {1, 2}
Tokens    == {"t1", "t2"}
Paths     == {"a", "b"}

NoStatus == [fmt |-> "", token |-> ""]

\* Duration::from_secs(1) / 60, in ticks
deadline == 2

\* the wire positions the model draws from: in bounds of every text, in
\* bounds of a text of two lines only, past the last line, past the end
Positions == {[line |-> 0, character |-> 0], [line |-> 1, character |-> 0],
              [line |-> 3, character |-> 0], [line |-> 0, character |-> 9]}

RECURSIVE line_to_char(_, _)
\* Rope::line_to_char: the chars before line `l`; a text is its lines' lengths
line_to_char(text, l) ==
    IF l = 0 THEN 0 ELSE line_to_char(text, l - 1) + text[l]

\* helix_lsp::util::lsp_pos_to_pos: None (-1) for a position past the last
\* line or past the end of the text
lsp_pos_to_pos(text, pos) ==
    IF pos.line > Len(text) - 1 THEN -1
    ELSE LET p == line_to_char(text, pos.line) + pos.character
         IN  IF p <= line_to_char(text, Len(text)) THEN p ELSE -1

RECURSIVE to_diagnostics_all_or_nothing(_, _)
\* a collect that gives up at the first position out of bounds
to_diagnostics_all_or_nothing(text, ds) ==
    IF ds = <<>> THEN <<>>
    ELSE IF \E i \in 1..Len(ds) : lsp_pos_to_pos(text, ds[i].start) = -1
                                  \/ lsp_pos_to_pos(text, ds[i].end) = -1
    THEN <<>>
    ELSE <<[range |-> [start |-> lsp_pos_to_pos(text, Head(ds).start),
                       end |-> lsp_pos_to_pos(text, Head(ds).end)],
            line |-> Head(ds).start.line]>>
         \o to_diagnostics_all_or_nothing(text, Tail(ds))

RECURSIVE to_diagnostics(_, _)
\* the filter_map of lines 361-412: an entry whose start or end does not
\* translate is skipped, the others are kept in order
to_diagnostics(text, ds) ==
    IF ds = <<>> THEN <<>>
    ELSE LET d     == Head(ds)
             start == lsp_pos_to_pos(text, d.start)
             end   == lsp_pos_to_pos(text, d.end)
         IN  IF start = -1 \/ end = -1
             THEN to_diagnostics(text, Tail(ds))
             ELSE <<[range |-> [start |-> start, end |-> end],
                     line |-> d.start.line]>> \o to_diagnostics(text, Tail(ds))

\* LspProgressMap (helix-lsp)
create(lp, id, token)       == [lp EXCEPT ![id][token] = "created"]
update(lp, id, token)       == [lp EXCEPT ![id][token] = "started"]
end_progress(lp, id, token) == [lp EXCEPT ![id][token] = "none"]
is_progressing(lp, id)      == \E t \in Tokens : lp[id][t] # "none"

\* the status text of a progress notification: one of eight formats
status_text(token, title, message, percentage) ==
    [token |-> token,
     fmt |-> CASE title /\ message /\ percentage    -> "[{}] {}% {} - {}"
               [] title /\ ~message /\ percentage   -> "[{}] {}% {}"
               [] title /\ message /\ ~percentage   -> "[{}] {} - {}"
               [] ~title /\ message /\ percentage   -> "[{}] {}% {}"
               [] title /\ ~message /\ ~percentage  -> "[{}] {}"
               [] ~title /\ message /\ ~percentage  -> "[{}] {}"
               [] ~title /\ ~message /\ percentage  -> "[{}] {}%"
               [] ~title /\ ~message /\ ~percentage -> "[{}]"]

\* a call of the incoming stream; rid is the id of a method call, 0 for a
\* notification
Call(kind, token, message, percentage, uri, diags) ==
    [kind |-> kind, token |-> token, message |-> message,
     percentage |-> percentage, uri |-> uri, diags |-> diags, rid |-> 0]

\* what a handler invocation leaves: the editor state, the replies it sent,
\* and whether it returned or panicked
Returned == [documents |-> documents, lsp_progress |-> lsp_progress,
             spinners |-> spinners, status |-> status, replies |-> <<>>,
             outcome |-> "return"]

Panicked == [Returned EXCEPT !.outcome = "panic"]

\* Notification::PublishDiagnostics (lines 349-416)
publish_diagnostics(call) ==
    IF call.uri \notin Paths
    THEN Panicked                    \* to_file_path().unwrap()
    ELSE IF ~documents[call.uri].open
    THEN Returned
    ELSE IF call.diags # <<>> /\ documents[call.uri].ls = 0
    THEN Panicked                    \* doc.language_server().unwrap()
    ELSE [Returned EXCEPT !.documents[call.uri].diagnostics =
                              to_diagnostics(documents[call.uri].text, call.diags)]

\* an End that leaves the spinner running
progress_end_running(lp, sp, id, token) ==
    [lsp_progress |-> end_progress(lp, id, token), spinners |-> sp]

\* lines 443-446 and 486-489: end the token's progress, and stop the
\* server's spinner if the server has no progress left
progress_end(lp, sp, id, token) ==
    LET lp2 == end_progress(lp, id, token)
    IN  [lsp_progress |-> lp2,
         spinners |-> [sp EXCEPT ![id] = @ /\ is_progressing(lp2, id)]]

\* a handler that tracks only the notifications it displays
progress_gated(lp, sp, st, display, call, id) ==
    IF call.kind = "end" /\ ~call.message
    THEN LET e == progress_end(lp, sp, id, call.token)
         IN  [lsp_progress |-> e.lsp_progress, spinners |-> e.spinners,
              status |-> NoStatus]
    ELSE LET t == IF call.kind = "end"
                  THEN progress_end(lp, sp, id, call.token)
                  ELSE [lsp_progress |-> update(lp, id, call.token),
                        spinners |-> sp]
         IN  IF display
             THEN [lsp_progress |-> t.lsp_progress, spinners |-> t.spinners,
                   status |-> status_text(call.token, call.kind = "begin",
                                          call.message,
                                          call.kind # "end" /\ call.percentage)]
             ELSE [lsp_progress |-> lp, spinners |-> sp, status |-> st]

\* lines 423-497 over a tracker lp, spinners sp and a status st, with the
\* display_messages flag: an End without message ends the progress and
\* clears the status (439-452); otherwise the tracker is updated (485-492)
\* and the status text is set if the flag is (494-496)
progress(lp, sp, st, display, call, id) ==
    IF call.kind = "end" /\ ~call.message
    THEN LET e == progress_end(lp, sp, id, call.token)
         IN  [lsp_progress |-> e.lsp_progress, spinners |-> e.spinners,
              status |-> NoStatus]
    ELSE LET t == IF call.kind = "end"
                  THEN progress_end(lp, sp, id, call.token)
                  ELSE [lsp_progress |-> update(lp, id, call.token),
                        spinners |-> sp]
         IN  [lsp_progress |-> t.lsp_progress, spinners |-> t.spinners,
              status |-> IF display
                         THEN status_text(call.token, call.kind = "begin",
                                          call.message,
                                          call.kind # "end" /\ call.percentage)
                         ELSE st]

\* lines 513-518: create the token's entry and start the server's spinner
progress_create(lp, sp, id, token) ==
    [lsp_progress |-> create(lp, id, token),
     spinners |-> [sp EXCEPT ![id] = TRUE]]

\* an End that carries a message is handled like a Report
progress_message_end_kept(call, id) ==
    IF call.kind = "end" /\ ~call.message
    THEN LET lp == end_progress(lsp_progress, id, call.token)
         IN  [Returned EXCEPT !.lsp_progress = lp,
                              !.spinners[id] = @ /\ is_progressing(lp, id),
                              !.status = NoStatus]
    ELSE [Returned EXCEPT !.lsp_progress = update(lsp_progress, id, call.token),
                          !.status = IF config.display_messages
                                     THEN status_text(call.token, call.kind = "begin",
                                                      call.message, call.percentage)
                                     ELSE status]

\* Notification::ProgressMessage (lines 423-497)
progress_message(call, id) ==
    LET r == progress(lsp_progress, spinners, status, config.display_messages,
                      call, id)
    IN  [Returned EXCEPT !.lsp_progress = r.lsp_progress,
                         !.spinners = r.spinners,
                         !.status = r.status]

\* a create that answers only through a document of the server
work_done_progress_create_no_error(call, id) ==
    [Returned EXCEPT
        !.lsp_progress =
            progress_create(lsp_progress, spinners, id, call.token).lsp_progress,
        !.spinners =
            progress_create(lsp_progress, spinners, id, call.token).spinners,
        !.replies =
            IF \E p \in Paths : documents[p].open /\ documents[p].ls = id
            THEN <<[id |-> call.rid, via |-> "document", result |-> "ok"]>>
            ELSE <<>>]

\* MethodCall::WorkDoneProgressCreate (lines 512-555)
work_done_progress_create(call, id) ==
    [Returned EXCEPT
        !.lsp_progress =
            progress_create(lsp_progress, spinners, id, call.token).lsp_progress,
        !.spinners =
            progress_create(lsp_progress, spinners, id, call.token).spinners,
        !.replies =
            IF \E p \in Paths : documents[p].open /\ documents[p].ls = id
            THEN <<[id |-> call.rid, via |-> "document", result |-> "ok"]>>
            ELSE IF id \in servers
            THEN <<[id |-> call.rid, via |-> "registry",
                    result |-> "document missing"]>>
            ELSE <<>>]

\* a handler for which an unknown method is a failed invariant
handle_language_server_message_strict(call, id) ==
    CASE call.kind = "publishDiagnostics" -> publish_diagnostics(call)
      [] call.kind \in {"begin", "report", "end"} -> progress_message(call, id)
      [] call.kind = "create" -> work_done_progress_create(call, id)
      [] call.kind \in {"showMessage", "logMessage"} -> Returned
      [] call.kind = "unknownNotification" -> Returned
      [] call.kind \in {"unknownMethod", "invalid"} -> Panicked

\* lines 341-568: a notification, a method call, or neither
handle_language_server_message(call, id) ==
    CASE call.kind = "publishDiagnostics" -> publish_diagnostics(call)
      [] call.kind \in {"begin", "report", "end"} -> progress_message(call, id)
      [] call.kind = "create" -> work_done_progress_create(call, id)
      [] call.kind \in {"showMessage", "logMessage"} -> Returned
      [] call.kind = "unknownNotification" -> Returned  \* parse gives None
      [] call.kind = "unknownMethod" -> Returned        \* "Method not found"
      [] call.kind = "invalid" -> Panicked              \* unreachable!()

\* the same call handled by the twin run
handle_twin(tw, call, id) ==
    CASE call.kind \in {"begin", "report", "end"} ->
           LET r == progress(tw.lsp_progress, tw.spinners, NoStatus,
                             ~config.display_messages, call, id)
           IN  [lsp_progress |-> r.lsp_progress, spinners |-> r.spinners]
      [] call.kind = "create" ->
           progress_create(tw.lsp_progress, tw.spinners, id, call.token)
      [] OTHER -> tw

\* SelectAll::is_empty of the incoming stream, read as "the queue has drained"
is_empty(q) == q = <<>>

\* lines 183-187 without the frame budget: render after every message
throttle_always(q, elapsed) == TRUE

\* lines 183-184: render when this was the last queued message or the frame
\* budget has passed since last_render
throttle(q, elapsed) == is_empty(q) \/ elapsed > deadline

\* A burst is a run of LSP calls handled one after the other until the
\* incoming queue is found empty.  The record keeps, of the current burst:
\*   first, span : when its first call was handled, and how long ago that
\*                 was when its latest call was handled
\*   n, renders  : calls handled and renders triggered (both stop at 3)
\*   done        : the latest call left the queue empty
\*   rendered    : the latest call triggered a render
\*   lr0         : last_render when the burst began
\*   late        : a call that left the queue non-empty was handled more
\*                 than the frame budget after lr0
\*   prev        : when the burst's previous render was triggered (-1: none)
\*   near        : two consecutive renders of the burst were no more than
\*                 the frame budget apart
\*   near_queued : the same, the later render with the queue non-empty
NoBurst ==
    [first |-> -1, span |-> 0, n |-> 0, renders |-> 0, done |-> TRUE,
     rendered |-> FALSE, lr0 |-> 0, late |-> FALSE, prev |-> -1,
     near |-> FALSE, near_queued |-> FALSE]

UpTo3(n) == IF n < 3 THEN n + 1 ELSE 3

Observe(b, rendered, final) ==
    LET b0 == IF b.done
              THEN [NoBurst EXCEPT !.first = now, !.lr0 = last_render]
              ELSE b
        near == rendered /\ b0.prev # -1 /\ now - b0.prev <= deadline
    IN  [first       |-> b0.first,
         span        |-> now - b0.first,
         n           |-> UpTo3(b0.n),
         renders     |-> IF rendered THEN UpTo3(b0.renders) ELSE b0.renders,
         done        |-> final,
         rendered    |-> rendered,
         lr0         |-> b0.lr0,
         late        |-> b0.late \/ (~final /\ now - b0.lr0 > deadline),
         prev        |-> IF rendered THEN now ELSE b0.prev,
         near        |-> b0.near \/ near,
         near_queued |-> b0.near_queued \/ (near /\ ~final)]

LspMessage ==
    /\ AtSelect
    /\ select = "lsp"
    /\ incoming' = Tail(incoming)
    /\ LET m == Head(incoming)
           r == handle_language_server_message(m.call, m.id)
       IN  /\ documents' = r.documents
           /\ lsp_progress' = r.lsp_progress
           /\ spinners' = r.spinners
           /\ status' = r.status
           /\ handled' = [id |-> m.id, call |-> m.call, replies |-> r.replies,
                          outcome |-> r.outcome]
           /\ twin' = IF r.outcome = "panic" THEN twin
                      ELSE handle_twin(twin, m.call, m.id)
           /\ IF r.outcome = "panic"
              THEN /\ pc' = "panic"
                   /\ last' = Selection("lsp", 0)
                   /\ UNCHANGED <<last_render, burst>>
              ELSE LET rendered == throttle(Tail(incoming), now - last_render)
                   IN  /\ pc' = "select"
                       /\ last' = Selection("lsp", IF rendered THEN 1 ELSE 0)
                       /\ last_render' = IF rendered THEN now ELSE last_render
                       /\ burst' = Observe(burst, rendered, Tail(incoming) = <<>>)
    /\ UNCHANGED <<termVars, config, newVars, term_in, signals, debugger_events, jobVars,
                   should_close, debugger, running, now, servers>>

(***************************************************************************)
(* Arm 4: DAP payloads (lines 189-260).                                    *)
(***************************************************************************)
Payloads == {"stopped", "output", "initialized", "other", "response", "request"}

\* the payloads that are events (lines 195-256): three handled, one not
Events == {"stopped", "output", "initialized", "other"}

\* what debugger.stack_trace() answers: an error, no frame, or a top frame
\* with or without a source path
StackTraces == {"err", "empty", "frame_src", "frame_nosrc"}

\* the source path of a top frame
FramePath == "b"

\* "stopped" after its fetches (lines 209-237): parse the body, open the top
\* frame's source, set the status, render
StoppedTail(sp, steps) ==
    \E body_ok \in BOOLEAN, open_ok \in BOOLEAN :
        IF ~body_ok \/ (sp = "frame_src" /\ ~open_ok)
        THEN /\ pc' = "panic"
             /\ last' = [last EXCEPT !.steps =
                            Append(steps, IF ~body_ok THEN "body_err"
                                          ELSE "open_err")]
             /\ UNCHANGED <<documents, status, running>>
        ELSE /\ pc' = "select"
             /\ documents' = IF sp = "frame_src"
                             THEN [documents EXCEPT ![FramePath].open = TRUE]
                             ELSE documents
             /\ status' = [fmt |-> "{} stopped because of {}", token |-> ""]
             /\ last' = [last EXCEPT !.renders = 1, !.rendered_at = now,
                                     !.steps = (IF sp = "frame_src"
                                                THEN Append(steps, "open")
                                                ELSE steps)
                                               \o <<"set_status", "render">>]
             /\ running' = {}

\* the history record of a DAP selection: its payload is the first step
Received(payload, n) ==
    [Selection("dap", n) EXCEPT !.steps = <<payload>>]

\* a loop that takes debugger payloads with no debugger attached
no_debugger_never(d) == FALSE

\* lines 190-192: if self.editor.debugger.is_none() { continue; }
no_debugger(d) == ~d.attached

DapEvent ==
    /\ AtSelect
    /\ select = "dap"
    /\ debugger_events' = Tail(debugger_events)
    /\ LET payload == Head(debugger_events)
       IN  IF no_debugger(debugger)
           THEN /\ last' = Received(payload, 0)     \* continue
                /\ UNCHANGED <<pc, debugger, status, running>>
           ELSE CASE payload = "stopped" ->
                       /\ debugger' = [debugger EXCEPT !.is_running = FALSE]
                       /\ pc' = "threads"
                       /\ running' = {"dap"}
                       /\ last' = Received(payload, 0)
                       /\ UNCHANGED status
                  [] payload = "output" ->
                       /\ \E body_ok \in BOOLEAN :
                            IF body_ok
                            THEN /\ status' = [fmt |-> "Debug: {}", token |-> ""]
                                 /\ last' = Received(payload, 1)
                                 /\ pc' = "select"
                            ELSE /\ pc' = "panic"
                                 /\ last' = Received(payload, 0)
                                 /\ UNCHANGED status
                       /\ UNCHANGED <<debugger, running>>
                  [] payload = "initialized" ->
                       /\ status' = [fmt |-> "Debugged application started",
                                     token |-> ""]
                       /\ last' = Received(payload, 1)
                       /\ UNCHANGED <<pc, debugger, running>>
                  [] payload = "other" ->
                       /\ last' = Received(payload, 0)
                       /\ UNCHANGED <<pc, debugger, status, running>>
                  [] payload \in {"response", "request"} ->
                       /\ pc' = "panic"            \* unreachable!() / todo!()
                       /\ last' = Received(payload, 0)
                       /\ UNCHANGED <<debugger, status, running>>
    /\ UNCHANGED <<termVars, config, newVars, term_in, signals, incoming, jobVars,
                   should_close, timeVars, lspVars>>

\* debugger.threads().await answers (lines 199-203): an error and an empty
\* list both leave `main` None
ThreadsReply ==
    /\ pc = "threads"
    /\ \E threads \in {"err", "empty", "some"} :
         IF threads = "some"
         THEN /\ pc' = "stack_trace"
              /\ last' = [last EXCEPT !.steps = Append(@, "threads_ok")]
              /\ UNCHANGED <<documents, status, running>>
         ELSE StoppedTail(debugger.stack_pointer,
                          Append(last.steps, IF threads = "err"
                                             THEN "threads_err"
                                             ELSE "threads_empty"))
    /\ UNCHANGED <<termVars, config, newVars, srcVars, jobVars, should_close, debugger,
                   timeVars, servers, lsp_progress, spinners, handled, twin>>

\* debugger.stack_trace(main.id).await.unwrap() answers (lines 205-206)
StackTraceReply ==
    /\ pc = "stack_trace"
    /\ \E bt \in StackTraces :
         IF bt = "err"
         THEN /\ pc' = "panic"
              /\ last' = [last EXCEPT !.steps = Append(@, "stack_trace_err")]
              /\ UNCHANGED <<debugger, documents, status, running>>
         ELSE LET sp == IF bt = "empty" THEN "none" ELSE bt
              IN  /\ debugger' = [debugger EXCEPT !.stack_pointer = sp]
                  /\ StoppedTail(sp, Append(last.steps, "stack_trace_ok"))
    /\ UNCHANGED <<termVars, config, newVars, srcVars, jobVars, should_close, timeVars,
                   servers, lsp_progress, spinners, handled, twin>>

(***************************************************************************)
(* Arms 5 and 6: job completions (lines 261-268).                          *)
(***************************************************************************)
JobCallback ==
    /\ AtSelect
    /\ select = "job"
    /\ jobs' = handle_callback(jobs, Head(futures))
    /\ futures' = Tail(futures)
    /\ last' = Selection("job", 1)
    /\ UNCHANGED <<pc, termVars, config, newVars, srcVars, wait_futures, should_close,
                   debugger, status, running, timeVars, lspVars>>

WaitJobCallback ==
    /\ AtSelect
    /\ select = "wait_job"
    /\ jobs' = handle_callback(jobs, Head(wait_futures))
    /\ wait_futures' = Tail(wait_futures)
    /\ last' = Selection("wait_job", 1)
    /\ UNCHANGED <<pc, termVars, config, newVars, srcVars, futures, should_close,
                   debugger, status, running, timeVars, lspVars>>

(***************************************************************************)
(* The environment: events arrive, jobs complete, time passes.             *)
(***************************************************************************)
\* the loop, or a handler of it, is running
Looping == pc \in {"select", "threads", "stack_trace"}

TermArrive(items) ==
    /\ Looping
    /\ Queued < MaxQueue
    /\ \E item \in items : term_in' = Append(term_in, item)
    /\ UNCHANGED <<pc, termVars, config, newVars, signals, incoming, debugger_events,
                   jobVars, should_close, debugger, status, running, last,
                   timeVars, lspVars>>

SignalArrive(sigs) ==
    /\ Looping
    /\ Queued < MaxQueue
    /\ \E sig \in sigs : signals' = Append(signals, sig)
    /\ UNCHANGED <<pc, termVars, config, newVars, term_in, incoming, debugger_events,
                   jobVars, should_close, debugger, status, running, last,
                   timeVars, lspVars>>

LspArrive(ids, calls, cap) ==
    /\ Looping
    /\ Queued < cap
    /\ \E id \in ids, call \in calls :
         incoming' = Append(incoming, [id |-> id, call |-> call])
    /\ UNCHANGED <<pc, termVars, config, newVars, term_in, signals, debugger_events,
                   jobVars, should_close, debugger, status, running, last,
                   timeVars, lspVars>>

DapArrive(payloads) ==
    /\ Looping
    /\ Queued < MaxQueue
    /\ \E payload \in payloads :
         debugger_events' = Append(debugger_events, payload)
    /\ UNCHANGED <<pc, termVars, config, newVars, term_in, signals, incoming, jobVars,
                   should_close, debugger, status, running, last, timeVars,
                   lspVars>>

\* a pending job completes: its result joins the stream of its class
JobResolve ==
    /\ Looping \/ pc = "finish"
    /\ \E j \in JobIds :
         /\ jobs[j].state = "pending"
         /\ jobs' = [jobs EXCEPT ![j].state = "ready"]
         /\ IF jobs[j].class = "ff"
            THEN futures' = Append(futures, j) /\ UNCHANGED wait_futures
            ELSE wait_futures' = Append(wait_futures, j) /\ UNCHANGED futures
    /\ UNCHANGED <<pc, termVars, config, newVars, srcVars, should_close, debugger, status,
                   running, last, timeVars, lspVars>>

Tick ==
    /\ Looping
    /\ now < MaxTime
    /\ now' = now + 1
    /\ UNCHANGED <<pc, termVars, config, newVars, srcVars, jobVars, should_close,
                   debugger, status, running, last, last_render, burst, lspVars>>

(***************************************************************************)
(* Spec: one run of the application, from run() to its return or exit.     *)
(***************************************************************************)
NoCall == Call("none", "t1", FALSE, FALSE, "a", <<>>)

NoHandled == [id |-> 1, call |-> NoCall, replies |-> <<>>, outcome |-> "return"]

NoSelection ==
    [src |-> "none", contended |-> FALSE, beaten |-> {}, renders |-> 0,
     rendered_at |-> 0, should_redraw |-> FALSE, steps |-> <<>>]

(***************************************************************************)
(* Application::new: opening the file arguments.                           *)
(***************************************************************************)
\* the paths a command line names: two regular files, a directory, and a
\* path editor.open fails on
Directories == {"d"}
Unopenable  == {"x"}
FileArgs    == Paths \cup Directories \cup Unopenable

is_dir(file) == file \in Directories

NoError        == "none"
DirectoryError == "expected a path to file, found a directory. (to open a directory pass it as first argument)"
OpenError      == "editor.open failed"

\* `for file in args.files`, from the i-th file on, after the calls in acc
RECURSIVE open_files(_, _, _)
open_files(files, i, acc) ==
    IF i > Len(files)
    THEN [opens |-> acc, error |-> NoError]
    ELSE IF is_dir(files[i])
    THEN [opens |-> acc, error |-> DirectoryError]
    ELSE IF files[i] \in Unopenable
    THEN [opens |-> acc, error |-> OpenError]
    ELSE open_files(files, i + 1,
                    Append(acc, [path |-> files[i], action |-> "Load"]))

\* every directory among the arguments is rejected before any file is opened
new_checked_first(files) ==
    IF files = <<>>
    THEN [opens |-> <<[path |-> "scratch", action |-> "VerticalSplit"]>>,
          picker |-> FALSE, error |-> NoError]
    ELSE IF \E i \in 1..Len(files) : is_dir(files[i])
    THEN [opens |-> <<>>, picker |-> FALSE, error |-> DirectoryError]
    ELSE LET r == open_files(files, 1, <<>>)
         IN  [opens |-> r.opens, picker |-> FALSE, error |-> r.error]

new(files) ==
    IF files = <<>>
    THEN [opens |-> <<[path |-> "scratch", action |-> "VerticalSplit"]>>,
          picker |-> FALSE, error |-> NoError]
    ELSE IF is_dir(files[1])
    THEN [opens |-> <<[path |-> "scratch", action |-> "VerticalSplit"]>>,
          picker |-> TRUE, error |-> NoError]
    ELSE IF files[1] \in Unopenable
    THEN [opens |-> <<>>, picker |-> FALSE, error |-> OpenError]
    ELSE LET r == open_files(files, 1,
                     <<[path |-> files[1], action |-> "VerticalSplit"]>>)
         IN  [opens |-> r.opens, picker |-> FALSE, error |-> r.error]

\* Application::new.  documents is the editor new() has built when it
\* returns; the count in "Loaded {} files." is Len(args).
New ==
    /\ pc = "new"
    /\ LET r == new(args)
       IN  /\ opens' = r.opens
           /\ picker' = r.picker
           /\ new_error' = r.error
           /\ pc' = IF r.error = NoError THEN "run" ELSE "new_err"
           /\ documents' =
                [p \in Paths |->
                    IF \E i \in 1..Len(r.opens) : r.opens[i].path = p
                    THEN [documents[p] EXCEPT !.open = TRUE]
                    ELSE documents[p]]
           /\ status' = IF r.error = NoError /\ ~r.picker /\ args # <<>>
                        THEN [fmt |-> "Loaded {} files.", token |-> ""]
                        ELSE status
    /\ UNCHANGED <<termVars, config, args, srcVars, jobVars, should_close,
                   debugger, running, last, timeVars, servers, lsp_progress,
                   spinners, handled, twin>>

Document(open, ls, text) ==
    [open |-> open, ls |-> ls, text |-> text, diagnostics |-> <<>>]

\* the state the loop, the editor and the environment start from
Quiet ==
    /\ term_in = <<>> /\ signals = <<>> /\ incoming = <<>>
    /\ debugger_events = <<>>
    /\ jobs = [j \in JobIds |-> NoJob]
    /\ futures = <<>> /\ wait_futures = <<>>
    /\ should_close = FALSE
    /\ status = NoStatus
    /\ running = {}
    /\ now = 0 /\ last_render = 0
    /\ burst = NoBurst
    /\ lsp_progress = [id \in ServerIds |-> [t \in Tokens |-> "none"]]
    /\ spinners = [id \in ServerIds |-> FALSE]
    /\ handled = NoHandled
    /\ twin = [lsp_progress |-> lsp_progress, spinners |-> spinners]
    /\ restored = 0
    /\ hook_failed = {}
    /\ suspended = FALSE

\* new() was given no file arguments and has returned the application
Constructed ==
    /\ args = <<>>
    /\ opens = <<[path |-> "scratch", action |-> "VerticalSplit"]>>
    /\ picker = FALSE
    /\ new_error = NoError

MainCalls == {Call("showMessage", "t1", FALSE, FALSE, "a", <<>>),
              Call("invalid", "t1", FALSE, FALSE, "a", <<>>)}

Init ==
    /\ pc = "run"
    /\ term = [raw |-> FALSE, alt |-> FALSE, mouse |-> FALSE]
    /\ panic_hooks = 0
    /\ attempted = FALSE
    /\ config \in [mouse : BOOLEAN, display_messages : {TRUE}]
    /\ debugger = [attached |-> FALSE, is_running |-> FALSE,
                   stack_pointer |-> "none"]
    /\ documents = [p \in Paths |-> Document(p = "a", 1, <<2, 1>>)]
    /\ servers = {1}
    /\ last = NoSelection
    /\ Quiet
    /\ Constructed

Next ==
    \/ Run
    \/ EventLoopStart
    \/ CloseCheck
    \/ FinishCallback
    \/ FinishDone
    \/ Close
    \/ PanicHook
    \/ TerminalEvent
    \/ Suspend
    \/ Resume
    \/ JobCallback
    \/ WaitJobCallback
    \/ TermArrive({"event", "err", "eof"})
    \/ SignalArrive({"SIGTSTP", "SIGCONT"})
    \/ JobResolve

Spec == Init /\ [][Next]_vars

(***************************************************************************)
(* SpecSelect: the running loop with all six sources.                      *)
(***************************************************************************)
\* the loop after EventLoopStart: terminal claimed, hook installed
Started ==
    /\ pc = "select"
    /\ term = [raw |-> TRUE, alt |-> TRUE, mouse |-> config.mouse]
    /\ panic_hooks = 1
    /\ attempted = FALSE
    /\ last = [NoSelection EXCEPT !.src = "start", !.renders = 1]
    /\ Quiet
    /\ Constructed

SelectCalls == {Call("showMessage", "t1", FALSE, FALSE, "a", <<>>)}

InitSelect ==
    /\ config = [mouse |-> FALSE, display_messages |-> TRUE]
    /\ debugger = [attached |-> TRUE, is_running |-> TRUE, stack_pointer |-> "none"]
    /\ documents = [p \in Paths |-> Document(p = "a", 1, <<2, 1>>)]
    /\ servers = {1}
    /\ Started

NextSelect ==
    \/ TerminalEvent
    \/ Resume
    \/ LspMessage
    \/ DapEvent
    \/ JobCallback
    \/ WaitJobCallback
    \/ TermArrive({"event"})
    \/ SignalArrive({"SIGCONT"})
    \/ LspArrive({1}, SelectCalls, MaxQueue)
    \/ DapArrive({"initialized"})
    \/ JobResolve

SpecSelect == InitSelect /\ [][NextSelect]_vars

(***************************************************************************)
(* SpecThrottle: the running loop with LSP calls arriving over time.       *)
(***************************************************************************)
NextThrottle ==
    \/ LspMessage
    \/ LspArrive({1}, SelectCalls, MaxQueue)
    \/ Tick

SpecThrottle == InitSelect /\ [][NextThrottle]_vars

(***************************************************************************)
(* SpecRender: the arms that are not throttled: terminal input, signals    *)
(* and job completions.                                                    *)
(***************************************************************************)
NextRender ==
    \/ TerminalEvent
    \/ Suspend
    \/ Resume
    \/ JobCallback
    \/ WaitJobCallback
    \/ TermArrive({"event"})
    \/ SignalArrive({"SIGTSTP", "SIGCONT"})
    \/ JobResolve

SpecRender == InitSelect /\ [][NextRender]_vars

(***************************************************************************)
(* SpecFrame: LSP calls between debugger events, as time passes.           *)
(***************************************************************************)
NextFrame ==
    \/ LspMessage
    \/ DapEvent
    \/ LspArrive({1}, SelectCalls, MaxQueue)
    \/ DapArrive({"initialized"})
    \/ Tick

SpecFrame == InitSelect /\ [][NextFrame]_vars

(***************************************************************************)
(* SpecClose: the loop up to a close request, and the shutdown after it.   *)
(* The loop runs on when it can, and pending jobs complete.                *)
(***************************************************************************)
Shutdown == CloseCheck \/ FinishCallback \/ FinishDone \/ Close

NextClose ==
    \/ TerminalEvent
    \/ Resume
    \/ JobCallback
    \/ WaitJobCallback
    \/ CloseCheck
    \/ FinishCallback
    \/ FinishDone
    \/ Close
    \/ TermArrive({"event"})
    \/ SignalArrive({"SIGCONT"})
    \/ JobResolve

SpecClose ==
    /\ InitSelect /\ [][NextClose]_vars
    /\ WF_vars(Shutdown) /\ WF_vars(JobResolve)

(***************************************************************************)
(* SpecCreate: WorkDoneProgressCreate requests from servers that are       *)
(* registered or not, with a document or not.                              *)
(***************************************************************************)
\* the ids of method calls
RequestIds == {1, 2}

CreateCalls ==
    {[Call("create", t, FALSE, FALSE, "a", <<>>) EXCEPT !.rid = r] :
        t \in Tokens, r \in RequestIds}

InitCreate ==
    /\ config = [mouse |-> FALSE, display_messages |-> TRUE]
    /\ debugger = [attached |-> FALSE, is_running |-> FALSE,
                   stack_pointer |-> "none"]
    /\ \E open \in BOOLEAN, ls \in {0} \cup ServerIds :
            documents = [p \in Paths |->
                            IF p = "a" THEN Document(open, ls, <<1>>)
                            ELSE Document(FALSE, 0, <<1>>)]
    /\ servers \in SUBSET ServerIds
    /\ Started

NextCreate ==
    \/ LspMessage
    \/ LspArrive(ServerIds, CreateCalls, 1)

SpecCreate == InitCreate /\ [][NextCreate]_vars

(***************************************************************************)
(* SpecMethod: calls the handler has no branch for.                        *)
(***************************************************************************)
MethodCalls ==
    {[Call(kind, "t1", FALSE, FALSE, "a", <<>>) EXCEPT !.rid = r] :
        kind \in {"unknownMethod", "create", "invalid"}, r \in RequestIds}
    \cup {Call("unknownNotification", "t1", FALSE, FALSE, "a", <<>>)}

NextMethod ==
    \/ LspMessage
    \/ LspArrive({1}, MethodCalls, MaxQueue)

SpecMethod == InitSelect /\ [][NextMethod]_vars

(***************************************************************************)
(* SpecDebug: every payload of the debugger channel, with a debugger       *)
(* attached or not.                                                        *)
(***************************************************************************)
InitDebug ==
    /\ config = [mouse |-> FALSE, display_messages |-> TRUE]
    /\ debugger \in [attached : BOOLEAN, is_running : {TRUE},
                      stack_pointer : {"none"}]
    /\ documents = [p \in Paths |-> Document(p = "a", 1, <<2, 1>>)]
    /\ servers = {1}
    /\ Started

NextDebug ==
    \/ DapEvent
    \/ ThreadsReply
    \/ StackTraceReply
    \/ DapArrive(Payloads)

SpecDebug == InitDebug /\ [][NextDebug]_vars

(***************************************************************************)
(* SpecState: the debugger channel next to terminal input, signals and     *)
(* LSP calls.                                                              *)
(***************************************************************************)
\* one event at a time: an event arrives when none is queued
TermAlone == Queued = 0 /\ TermArrive({"event"})

SignalAlone == Queued = 0 /\ SignalArrive({"SIGTSTP"})

DapAlone == Queued = 0 /\ DapArrive(Events)

NextState ==
    \/ TerminalEvent
    \/ Suspend
    \/ Resume
    \/ LspMessage
    \/ DapEvent
    \/ ThreadsReply
    \/ StackTraceReply
    \/ TermAlone
    \/ SignalAlone
    \/ LspArrive({1}, SelectCalls, 1)
    \/ DapAlone

SpecState == InitSelect /\ [][NextState]_vars

(***************************************************************************)
(* SpecNew: Application::new over every list of file arguments.            *)
(***************************************************************************)
Files == UNION {[1..n -> FileArgs] : n \in 0..MaxFiles}

InitNew ==
    /\ pc = "new"
    /\ args \in Files
    /\ opens = <<>> /\ picker = FALSE /\ new_error = NoError
    /\ term = [raw |-> FALSE, alt |-> FALSE, mouse |-> FALSE]
    /\ panic_hooks = 0
    /\ attempted = FALSE
    /\ config = [mouse |-> FALSE, display_messages |-> TRUE]
    /\ debugger = [attached |-> FALSE, is_running |-> FALSE,
                   stack_pointer |-> "none"]
    /\ documents = [p \in Paths |-> Document(FALSE, 0, <<1>>)]
    /\ servers = {}
    /\ last = NoSelection
    /\ Quiet

NextNew == New

SpecNew == InitNew /\ [][NextNew]_vars

(***************************************************************************)
(* SpecDiag: a PublishDiagnostics batch for documents of every kind.       *)
(***************************************************************************)
Ranges == [start : Positions, end : Positions]

Batches == UNION {[1..n -> Ranges] : n \in 0..MaxBatch}

DiagCalls ==
    {Call("publishDiagnostics", "t1", FALSE, FALSE, uri, diags) :
        uri \in Paths \cup {"nonfile"}, diags \in Batches}

\* a diagnostic left by an earlier batch
OldDiagnostic == [range |-> [start |-> 0, end |-> 0], line |-> 0]

InitDiag ==
    /\ config = [mouse |-> FALSE, display_messages |-> TRUE]
    /\ debugger = [attached |-> FALSE, is_running |-> FALSE,
                   stack_pointer |-> "none"]
    /\ \E open \in BOOLEAN, ls \in {0, 1}, text \in {<<2, 1>>, <<1>>},
          old \in {<<>>, <<OldDiagnostic>>} :
            documents = [p \in Paths |->
                            IF p = "a"
                            THEN [Document(open, ls, text) EXCEPT !.diagnostics = old]
                            ELSE Document(FALSE, 0, <<1>>)]
    /\ servers = {1}
    /\ Started

\* one batch a run: what the document held before is drawn by InitDiag
NextDiag ==
    \/ LspMessage
    \/ handled = NoHandled /\ LspArrive({1}, DiagCalls, 1)

SpecDiag == InitDiag /\ [][NextDiag]_vars

(***************************************************************************)
(* SpecProgress: work-done progress from two servers.                      *)
(***************************************************************************)
ProgressCalls ==
    {Call("create", t, FALSE, FALSE, "a", <<>>) : t \in Tokens}
    \cup {Call("begin", t, m, FALSE, "a", <<>>) : t \in Tokens, m \in BOOLEAN}
    \cup {Call("report", t, TRUE, TRUE, "a", <<>>) : t \in Tokens}
    \cup {Call("end", t, m, FALSE, "a", <<>>) : t \in Tokens, m \in BOOLEAN}

InitProgress ==
    /\ config \in [mouse : {FALSE}, display_messages : BOOLEAN]
    /\ debugger = [attached |-> FALSE, is_running |-> FALSE,
                   stack_pointer |-> "none"]
    /\ documents = [p \in Paths |-> Document(p = "a", 1, <<2, 1>>)]
    /\ servers = {1}
    /\ Started

NextProgress ==
    \/ LspMessage
    \/ LspArrive(ServerIds, ProgressCalls, 1)

SpecProgress == InitProgress /\ [][NextProgress]_vars

(***************************************************************************)
(* SpecStatus: progress notifications of one server while a debugger       *)
(* session writes the status line.                                         *)
(***************************************************************************)
StatusCalls ==
    {Call("begin", "t1", m, FALSE, "a", <<>>) : m \in BOOLEAN}
    \cup {Call("report", "t1", TRUE, TRUE, "a", <<>>)}
    \cup {Call("end", "t1", m, FALSE, "a", <<>>) : m \in BOOLEAN}

InitStatus ==
    /\ config \in [mouse : {FALSE}, display_messages : BOOLEAN]
    /\ debugger = [attached |-> TRUE, is_running |-> TRUE,
                   stack_pointer |-> "none"]
    /\ documents = [p \in Paths |-> Document(p = "a", 1, <<2, 1>>)]
    /\ servers = {1}
    /\ Started

NextStatus ==
    \/ LspMessage
    \/ DapEvent
    \/ LspArrive({1}, StatusCalls, MaxQueue)
    \/ DapArrive({"initialized"})

SpecStatus == InitStatus /\ [][NextStatus]_vars

(***************************************************************************)
(* SpecSerial: the running loop with terminal input, DAP "stopped" events  *)
(* (whose handler awaits two fetches inline) and jobs.                     *)
(***************************************************************************)
NextSerial ==
    \/ TerminalEvent
    \/ DapEvent
    \/ ThreadsReply
    \/ StackTraceReply
    \/ JobCallback
    \/ WaitJobCallback
    \/ TermArrive({"event"})
    \/ DapArrive({"stopped"})
    \/ JobResolve

SpecSerial == InitSelect /\ [][NextSerial]_vars

C3_TerminalSafety ==
    pc = "abort" =>
        /\ restored = 1
        /\ "LeaveAlternateScreen" \notin hook_failed => ~term.alt
        /\ "disable_raw_mode" \notin hook_failed => ~term.raw

\* a crash of the terminal-input handler while the process was suspended and
\* its resume signal was still queued
C3_Witness ==
    /\ pc = "abort"
    /\ restored = 1
    /\ hook_failed = {}
    /\ suspended
    /\ last.src = "terminal"
    /\ ~term.raw /\ ~term.alt

\* C4 (restoration on every fatal path): run() never returns an error, and
\* the process never exits on a panic, with the terminal in raw mode and no
\* restoration attempted since it was claimed.
C4_RestoreAttempted ==
    pc \in {"err", "abort"} /\ term.raw => attempted

(***************************************************************************)
(* Properties of SpecSelect and SpecSerial.                                             *)
(***************************************************************************)
\* C1 (priority): the source a selection dispatches is outranked by no
\* source that was ready at that selection, under the order terminal input >
\* signal > LSP > DAP > fire-and-forget jobs > must-await jobs; so terminal
\* input, whenever ready, is the one dispatched.
C1_Priority ==
    last.src \in SourceSet => last.beaten = {}

\* terminal input was dispatched while another source was ready too, and an
\* LSP call is still waiting
C1_Witness ==
    /\ last.src = "terminal"
    /\ last.contended
    /\ incoming # <<>>

\* a queue that a step leaves alone or that only grew at its end
Kept(q, q2) ==
    q2 = q \/ (Len(q2) = Len(q) + 1 /\ SubSeq(q2, 1, Len(q)) = q)

\* C10 (serial dispatch): at most one handler is running; while one is
\* (the "stopped" handler waiting on its fetches), the step takes no event
\* from any source and applies no job callback; a handler starts only when
\* none is running; and a job callback is applied to the first completion
\* of its class's stream, one job per step.
C10_SerialDispatch ==
    [][/\ Cardinality(running') <= 1
       /\ (running' # running /\ running' # {}) => running = {}
       /\ running # {} =>
            /\ Kept(term_in, term_in') /\ Kept(signals, signals')
            /\ Kept(incoming, incoming')
            /\ Kept(debugger_events, debugger_events')
            /\ \A j \in JobIds : jobs'[j].calls = jobs[j].calls
       /\ \A j \in JobIds :
            jobs'[j].calls # jobs[j].calls =>
                /\ \A k \in JobIds \ {j} : jobs'[k].calls = jobs[k].calls
                /\ \/ futures # <<>> /\ Head(futures) = j
                   \/ wait_futures # <<>> /\ Head(wait_futures) = j]_vars

\* the "stopped" handler waits for its stack trace while terminal input and
\* a completed job are ready
C10_Witness ==
    /\ pc = "stack_trace"
    /\ running = {"dap"}
    /\ term_in # <<>>
    /\ futures # <<>>

(***************************************************************************)
(* Properties of SpecThrottle.                                             *)
(***************************************************************************)
\* C5 as stated (throttling, burst case): a burst of LSP calls handled within
\* less than the frame budget triggers exactly one render, after its last
\* call, however long before the burst the previous render was.
C5_OneRenderPerBurst ==
    burst.done /\ burst.n >= 1 /\ burst.span < deadline =>
        burst.rendered /\ burst.renders = 1

\* C5 amended: such a burst triggers a render after its last call, and that
\* is its only render exactly when every call of the burst but the last was
\* handled no more than the frame budget after last_render (set at loop
\* start and by LSP-triggered renders); otherwise the burst renders twice.
C5_BurstRenders ==
    burst.done /\ burst.n >= 1 /\ burst.span < deadline =>
        /\ burst.rendered
        /\ burst.renders = IF burst.late THEN 2 ELSE 1

\* a burst of at least two calls, handled within the frame budget, with its
\* single render after the last call
C5_Witness ==
    /\ burst.done /\ burst.n >= 2 /\ burst.span < deadline
    /\ burst.rendered /\ burst.renders = 1
    /\ burst.first - burst.lr0 > 0

\* C6 as stated (throttling, long burst): in a burst that spans longer than
\* the frame budget, any two consecutive renders triggered by its calls,
\* the final render when the queue drains included, are more than the frame
\* budget apart.
C6_RendersApart ==
    burst.span > deadline => ~burst.near

\* C6 amended: two consecutive renders triggered by the calls of a burst are
\* more than the frame budget apart whenever the later one is triggered with
\* calls still queued; only the final render, when the queue drains, may
\* follow the previous render sooner.
C6_QueuedRendersApart ==
    ~burst.near_queued

\* a burst longer than the frame budget whose latest call, with calls still
\* queued, triggered the burst's second render
C6_Witness ==
    /\ ~burst.done /\ burst.span > deadline
    /\ burst.rendered /\ burst.renders = 2
    /\ incoming # <<>>

(***************************************************************************)
(* Properties of SpecDiag.                                                 *)
(***************************************************************************)
\* the entries of a batch whose start and end both translate
Valid(text, ds) ==
    {i \in 1..Len(ds) : /\ lsp_pos_to_pos(text, ds[i].start) # -1
                        /\ lsp_pos_to_pos(text, ds[i].end) # -1}

\* the k-th smallest element of a set of numbers
Nth(S, k) == CHOOSE i \in S : Cardinality({j \in S : j < i}) = k - 1

\* `stored` is exactly the valid entries of the batch, in batch order
PartiallyApplied(stored, text, ds) ==
    /\ Len(stored) = Cardinality(Valid(text, ds))
    /\ \A k \in 1..Len(stored) :
         LET d == ds[Nth(Valid(text, ds), k)]
         IN  /\ stored[k].range.start = lsp_pos_to_pos(text, d.start)
             /\ stored[k].range.end = lsp_pos_to_pos(text, d.end)
             /\ stored[k].line = d.start.line

\* C7 (diagnostic partial application): once a PublishDiagnostics batch for
\* an open document has been handled, the handler has returned and the
\* document holds exactly the entries of the batch whose start and end both
\* translate, in batch order, in place of what it held before.
C7_PartialApplication ==
    /\ last.src = "lsp"
    /\ handled.call.kind = "publishDiagnostics"
    /\ handled.call.uri \in Paths
    /\ documents[handled.call.uri].open
    => /\ handled.outcome = "return"
       /\ PartiallyApplied(documents[handled.call.uri].diagnostics,
                           documents[handled.call.uri].text, handled.call.diags)

\* the part of C7 that holds: the same, for a document that has a language
\* server
C7_PartialApplicationWithServer ==
    /\ last.src = "lsp"
    /\ handled.call.kind = "publishDiagnostics"
    /\ handled.call.uri \in Paths
    /\ documents[handled.call.uri].open
    /\ documents[handled.call.uri].ls # 0
    => /\ handled.outcome = "return"
       /\ PartiallyApplied(documents[handled.call.uri].diagnostics,
                           documents[handled.call.uri].text, handled.call.diags)

(***************************************************************************)
(* Properties of SpecProgress.                                             *)
(***************************************************************************)
\* the step handles the LSP call at the head of the incoming queue
HandlesLsp == AtSelect /\ incoming # <<>> /\ incoming' = Tail(incoming)

\* C8 (progress lifecycle): handling a progress End for token t of server s,
\* with or without a message, leaves no entry for t in the tracker, whether
\* t was created, begun or never seen; if s is then left without entries its
\* spinner is stopped, and otherwise its spinner is as it was (running, if
\* it was running).
C8_ProgressEnd ==
    [][HandlesLsp /\ Head(incoming).call.kind = "end" =>
         LET s == Head(incoming).id
             t == Head(incoming).call.token
         IN  /\ lsp_progress'[s][t] = "none"
             /\ \A u \in Tokens \ {t} : lsp_progress'[s][u] = lsp_progress[s][u]
             /\ IF \A u \in Tokens : lsp_progress'[s][u] = "none"
                THEN ~spinners'[s]
                ELSE spinners'[s] = spinners[s]]_vars

\* an End with a message was handled for a token that is gone, while another
\* token of the same server is in progress and its spinner still runs
C8_Witness ==
    /\ handled.call.kind = "end"
    /\ handled.call.message
    /\ lsp_progress[handled.id][handled.call.token] = "none"
    /\ \E u \in Tokens : lsp_progress[handled.id][u] = "created"
    /\ spinners[handled.id]

(***************************************************************************)
(* Properties of SpecNew.                                                  *)
(***************************************************************************)
\* k is the first directory of files, it is not the first file, and every
\* file before it is a regular file
FirstDirectory(files, k) ==
    /\ k \in 2..Len(files)
    /\ is_dir(files[k])
    /\ \A j \in 1..(k - 1) : files[j] \in Paths

\* C9 (startup file opening): when the file arguments are f1..fn with f1 a
\* regular file and fk, k > 1, the first directory among them, new() returns
\* the error "expected a path to file, found a directory...", the files
\* before fk have been opened (f1 first in a split, then f1..f(k-1) loaded in
\* order) and stay open, and no file is opened after fk.
C9_DirectoryArgument ==
    \A k \in 1..Len(args) :
        pc # "new" /\ FirstDirectory(args, k) =>
            /\ pc = "new_err"
            /\ new_error = DirectoryError
            /\ Len(opens) = k
            /\ opens[1] = [path |-> args[1], action |-> "VerticalSplit"]
            /\ \A j \in 1..(k - 1) :
                 /\ opens[j + 1] = [path |-> args[j], action |-> "Load"]
                 /\ documents[args[j]].open
            /\ \A j \in (k + 1)..Len(args) :
                 args[j] \in Paths /\ (\A i \in 1..(k - 1) : args[i] # args[j])
                     => ~documents[args[j]].open

\* new([a, d, b]) has returned the directory error with a open and b not
C9_Witness ==
    /\ pc = "new_err"
    /\ args = <<"a", "d", "b">>
    /\ new_error = DirectoryError
    /\ documents["a"].open
    /\ ~documents["b"].open

(***************************************************************************)
(* Properties of SpecRender.                                               *)
(***************************************************************************)
\* the step dispatches a terminal event, a signal, a job completion
TerminalDispatch ==
    /\ AtSelect /\ select = "terminal"
    /\ Head(term_in) = "event" /\ term_in' = Tail(term_in)

SignalDispatch(sig) ==
    /\ AtSelect /\ select = "signal"
    /\ Head(signals) = sig
    /\ \/ signals' = Tail(signals)
       \/ sig = "SIGTSTP" /\ signals' = Append(Tail(signals), "SIGCONT")

JobDispatch ==
    /\ AtSelect
    /\ \/ select = "job" /\ futures' = Tail(futures)
       \/ select = "wait_job" /\ wait_futures' = Tail(wait_futures)

\* C11 as stated (render policy for non-LSP events): every dispatched
\* terminal event, signal (suspend as well as resume) and job completion
\* whose handler returns is followed by a render, whatever the handler
\* reported and whatever the editor state.
C11_RenderAfterEvery ==
    [][(TerminalDispatch \/ SignalDispatch("SIGTSTP") \/ SignalDispatch("SIGCONT")
           \/ JobDispatch) /\ pc' = "select"
        => last'.renders = 1]_vars

\* C11 amended: a job completion of either class and a resume signal whose
\* handler returns are followed by a render; a terminal event is followed by
\* a render exactly when its handler asked for a redraw and the editor is
\* not closing; a suspend signal is followed by none.
C11_RenderPolicy ==
    [][pc' = "select" =>
         /\ JobDispatch => last'.renders = 1
         /\ SignalDispatch("SIGCONT") => last'.renders = 1
         /\ SignalDispatch("SIGTSTP") => last'.renders = 0
         /\ TerminalDispatch =>
              last'.renders = IF last'.should_redraw /\ ~should_close'
                              THEN 1 ELSE 0]_vars

\* a terminal event whose handler asked for a redraw and closed the editor
\* was dispatched without a render
C11_Witness ==
    /\ pc = "select"
    /\ last.src = "terminal"
    /\ last.should_redraw
    /\ should_close
    /\ last.renders = 0

(***************************************************************************)
(* Properties of SpecFrame.                                                *)
(***************************************************************************)
\* the step handles an LSP call and its handler returns
LspDispatch == HandlesLsp /\ pc' = "select"

\* C12 as stated (render rule for LSP events): after an LSP call a render
\* fires only when the incoming queue is empty or more than the frame budget
\* has passed since the latest render call, whatever arm made that call.
C12_RenderSinceAnyRender ==
    [][LspDispatch /\ last'.renders = 1 =>
         incoming' = <<>> \/ now - last.rendered_at > deadline]_vars

\* C12 amended: after an LSP call a render fires exactly when the incoming
\* queue is empty or more than the frame budget has passed since last_render,
\* and last_render is moved only by such a render (the renders of the other
\* arms leave it as it is).
C12_RenderSinceLastRender ==
    [][/\ LspDispatch =>
            (last'.renders = 1 <=>
                incoming' = <<>> \/ now - last_render > deadline)
       /\ last_render' # last_render =>
            LspDispatch /\ last'.renders = 1 /\ last_render' = now]_vars

\* an LSP call was handled without a render: calls are still queued and
\* last_render is within the frame budget, a debugger event having rendered
\* since
C12_Witness ==
    /\ last.src = "lsp"
    /\ last.renders = 0
    /\ incoming # <<>>
    /\ last.rendered_at > last_render

(***************************************************************************)
(* Properties of the fatal paths (Spec).                                   *)
(***************************************************************************)
\* the step reads the end of the terminal input stream, or an error of it
InputTerminated ==
    /\ AtSelect /\ select = "terminal"
    /\ Head(term_in) \in {"err", "eof"} /\ term_in' = Tail(term_in)

\* C13 (input-stream termination is fatal): when the terminal input yields
\* its end or an error the loop panics without rendering; from the panic on
\* no event of any source is dispatched and no job callback is applied; the
\* panic hook runs once and leaves the alternate screen and raw mode (as far
\* as its I/O succeeds), after which the process has exited.
C13_InputTerminationFatal ==
    [][/\ InputTerminated =>
            /\ pc' = "panic" /\ last'.renders = 0
            /\ UNCHANGED <<signals, incoming, debugger_events, jobVars>>
       /\ pc = "panic" =>
            /\ pc' = "abort"
            /\ restored' = restored + 1
            /\ "LeaveAlternateScreen" \notin hook_failed' => ~term'.alt
            /\ "disable_raw_mode" \notin hook_failed' => ~term'.raw
            /\ UNCHANGED <<srcVars, jobVars, last>>
       /\ pc # "abort"]_vars

\* the input stream ended while a signal was queued: the loop panicked, the
\* hook restored the terminal, and the signal was never dispatched
C13_Witness ==
    /\ pc = "abort"
    /\ last.src = "terminal" /\ last.renders = 0
    /\ signals # <<>>
    /\ restored = 1
    /\ ~term.raw /\ ~term.alt /\ ~term.mouse

(***************************************************************************)
(* Properties of SpecClose.                                                *)
(***************************************************************************)
\* C14 (close handling): the close request is set by a terminal event whose
\* handler then skips its render; once it is set it stays set, no event of
\* any source is taken, no fire-and-forget completion is applied and nothing
\* renders; the loop goes from the select to the drain of the must-await
\* jobs and leaves it only when all of them are done; and run() then ends.
C14_CloseHandling ==
    /\ [][/\ ~should_close /\ should_close' =>
               TerminalDispatch /\ last'.renders = 0
          /\ should_close =>
               /\ should_close'
               /\ last' = last
               /\ Kept(term_in, term_in') /\ Kept(signals, signals')
               /\ Kept(incoming, incoming')
               /\ Kept(debugger_events, debugger_events')
               /\ Kept(futures, futures')
               /\ pc = "select" => pc' \in {"select", "finish"}
               /\ pc = "finish" => pc' \in {"finish", "close"}
               /\ pc = "finish" /\ pc' = "close" =>
                    \A j \in JobIds :
                        jobs[j].class = "wait" => jobs[j].state = "done"]_vars
    /\ (should_close ~> pc \in Final)

\* run() has returned after a close request: the handler that set it had
\* asked for a redraw and did not render, a must-await job was drained, and
\* terminal input and a signal that were queued were never dispatched
C14_Witness ==
    /\ pc = "ok"
    /\ should_close
    /\ last.src = "terminal" /\ last.should_redraw /\ last.renders = 0
    /\ term_in # <<>> /\ signals # <<>>
    /\ \E j \in JobIds : jobs[j].class = "wait" /\ jobs[j].state = "done"

(***************************************************************************)
(* Properties of the signal handler (SpecRender).                          *)
(***************************************************************************)
\* call a comes before call b in the sequence of calls
Before(steps, a, b) ==
    \E i, j \in 1..Len(steps) : i < j /\ steps[i] = a /\ steps[j] = b

\* C15 (suspend/resume ordering): a SIGTSTP handler that returns has
\* restored the terminal (mouse capture off, alternate screen left, raw mode
\* off) before it yielded to the default handler; a SIGCONT handler that
\* returns has claimed the terminal, then resized the compositor, then
\* rendered, in that one invocation.
C15_SuspendResumeOrder ==
    [][pc' = "select" =>
         /\ SignalDispatch("SIGTSTP") =>
              /\ Before(last'.steps, "restore_term", "emulate_default_handler")
              /\ ~term'.mouse /\ ~term'.alt /\ ~term'.raw
         /\ SignalDispatch("SIGCONT") =>
              /\ Before(last'.steps, "claim_term", "resize")
              /\ Before(last'.steps, "resize", "render")
              /\ last'.renders = 1
              /\ term'.raw /\ term'.alt]_vars

\* the process was suspended with the terminal restored and the resume
\* signal is queued
C15_Witness ==
    /\ pc = "select"
    /\ suspended
    /\ last.src = "signal" /\ last.steps = suspend_steps
    /\ ~term.raw /\ ~term.alt
    /\ signals # <<>> /\ Head(signals) = "SIGCONT"

(***************************************************************************)
(* Properties of SpecCreate.                                               *)
(***************************************************************************)
\* an open document is bound to server s
Bound(s) == \E p \in Paths : documents[p].open /\ documents[p].ls = s

\* C16 (WorkDoneProgressCreate reply resolution): a create request r of
\* server s is answered once, for r, when s has a document or is registered,
\* and not at all otherwise: with success through the document's server when
\* an open document is bound to s, else with the error "document missing"
\* through the registry's server when s is registered; in every case the
\* progress entry is created and the spinner of s runs.
C16_CreateReply ==
    last.src = "lsp" /\ handled.call.kind = "create" =>
        LET s == handled.id
            known == s \in servers
        IN  /\ handled.outcome = "return"
            /\ Len(handled.replies) = IF Bound(s) \/ known THEN 1 ELSE 0
            /\ \A i \in 1..Len(handled.replies) :
                 handled.replies[i].id = handled.call.rid
            /\ Bound(s) =>
                 /\ handled.replies[1].via = "document"
                 /\ handled.replies[1].result = "ok"
            /\ ~Bound(s) /\ known =>
                 /\ handled.replies[1].via = "registry"
                 /\ handled.replies[1].result = "document missing"
            /\ lsp_progress[s][handled.call.token] = "created"
            /\ spinners[s]

\* a create request of a registered server without a document was answered
\* with the error
C16_Witness ==
    /\ handled.call.kind = "create"
    /\ handled.id \in servers /\ ~Bound(handled.id)
    /\ handled.replies =
         <<[id |-> handled.call.rid, via |-> "registry",
            result |-> "document missing"]>>
    /\ spinners[handled.id]

(***************************************************************************)
(* Properties of SpecMethod.                                               *)
(***************************************************************************)
\* C17 as stated: handling a method call whose method is not
\* WorkDoneProgressCreate puts the loop in the fatal state.
C17_UnknownMethodFatal ==
    last.src = "lsp" /\ handled.call.kind = "unknownMethod" =>
        pc \in {"panic", "abort"}

\* C17 amended: a method call whose method is not WorkDoneProgressCreate is
\* logged and dropped: the handler returns, sends no reply, leaves the
\* documents, the tracker, the spinners and the status as they were, and the
\* loop goes on; only a call that is neither a notification nor a method
\* call puts the loop in the fatal state.
C17_UnknownMethodDropped ==
    [][HandlesLsp =>
         /\ Head(incoming).call.kind = "unknownMethod" =>
              /\ pc' = "select"
              /\ handled'.outcome = "return" /\ handled'.replies = <<>>
              /\ UNCHANGED <<documents, lsp_progress, spinners, status>>
         /\ Head(incoming).call.kind = "invalid" => pc' = "panic"]_vars

\* an unknown method call was handled and the loop is back at the select
\* with another call to dispatch
C17_Witness ==
    /\ pc = "select"
    /\ last.src = "lsp"
    /\ handled.call.kind = "unknownMethod" /\ handled.outcome = "return"
    /\ incoming # <<>>

(***************************************************************************)
(* Properties of SpecDebug.                                                *)
(***************************************************************************)
\* the handler of the last selection made this call, or had this outcome
Did(step) == \E i \in 1..Len(last.steps) : last.steps[i] = step

StoppedStatus == [fmt |-> "{} stopped because of {}", token |-> ""]

\* C18 (failed debugger lookups are logged-and-continue): a "stopped"
\* handler whose thread-list fetch or stack-trace fetch failed, and whose
\* body and source file were in order, has not aborted the loop: it has
\* returned with is_running false and the status line set.
C18_FailedLookupsContinue ==
    /\ last.src = "dap" /\ Did("stopped")
    /\ Did("threads_err") \/ Did("stack_trace_err")
    /\ ~Did("body_err") /\ ~Did("open_err")
    => /\ pc = "select"
       /\ ~debugger.is_running
       /\ status = StoppedStatus

\* C19 (stack pointer after a failed thread-list fetch): a "stopped" handler
\* whose thread-list fetch failed or returned no thread has, when it
\* returns, left stack_pointer unset and opened no file.
C19_StackPointerUnset ==
    /\ pc = "select"
    /\ last.src = "dap" /\ Did("stopped")
    /\ Did("threads_err") \/ Did("threads_empty")
    => /\ debugger.stack_pointer = "none"
       /\ ~Did("open")

\* the step dispatches this payload of the debugger channel
DapDispatch(payload) ==
    /\ AtSelect /\ select = "dap"
    /\ Head(debugger_events) = payload
    /\ debugger_events' = Tail(debugger_events)

\* C20 as stated: a Response payload that is dispatched puts the loop in the
\* fatal state, whether a debugger is attached or not.
C20_ResponseFatal ==
    [][DapDispatch("response") => pc' = "panic"]_vars

\* C20 amended: a Response payload that is dispatched while a debugger is
\* attached puts the loop in the fatal state; with no debugger attached it
\* is discarded: nothing renders, the debugger, the status and the documents
\* stay as they were, and the loop goes on.
C20_ResponseFatalWhenAttached ==
    [][DapDispatch("response") =>
         IF debugger.attached
         THEN pc' = "panic"
         ELSE /\ pc' = "select"
              /\ last'.renders = 0
              /\ UNCHANGED <<debugger, status, documents>>]_vars

\* a Response payload was dispatched with a debugger attached and the loop
\* has panicked
C20_Witness ==
    /\ pc = "panic"
    /\ debugger.attached
    /\ last.src = "dap" /\ last.steps = <<"response">>

(***************************************************************************)
(* Properties of SpecState.                                                *)
(***************************************************************************)
\* the step is part of the handling of a DAP "stopped" event: its dispatch,
\* or the answer to one of its two fetches
HandlesStopped ==
    \/ DapDispatch("stopped")
    \/ pc \in {"threads", "stack_trace"}

\* C21 (DebuggerState frame): a step that changes is_running or
\* stack_pointer is part of the handling of a DAP "stopped" event; the
\* dispatch of any other DAP payload, of a terminal-input event, of a signal
\* or of an LSP message leaves both as they were.
C21_DebuggerFrame ==
    [][/\ (debugger'.is_running # debugger.is_running
           \/ debugger'.stack_pointer # debugger.stack_pointer)
          => HandlesStopped
       /\ (\/ TerminalDispatch
           \/ SignalDispatch("SIGTSTP") \/ SignalDispatch("SIGCONT")
           \/ LspDispatch
           \/ \E p \in Events \ {"stopped"} : DapDispatch(p))
          => /\ debugger'.is_running = debugger.is_running
             /\ debugger'.stack_pointer = debugger.stack_pointer]_vars

\* a "stopped" event has set both fields, and a terminal-input event handled
\* after it has left them so
C21_Witness ==
    /\ ~debugger.is_running
    /\ debugger.stack_pointer = "frame_src"
    /\ last.src = "terminal"
    /\ pc = "select"

(***************************************************************************)
(* Further properties of SpecProgress, and of SpecStatus.                  *)
(***************************************************************************)
\* C22 (tracker independent of the display flag): after any sequence of
\* WorkDoneProgressCreate requests and Begin/Report/End notifications, the
\* tracker and the spinners of the run are those of the twin run, which
\* handled the same calls with display_messages the other way.
C22_TrackerIndependent ==
    /\ twin.lsp_progress = lsp_progress
    /\ twin.spinners = spinners

\* a Report was displayed in this run, so not in its twin, for a token in
\* progress on a server whose spinner runs
C22_Witness ==
    /\ config.display_messages
    /\ handled.call.kind = "report"
    /\ status.fmt = "[{}] {}% {}"
    /\ lsp_progress[handled.id][handled.call.token] = "started"
    /\ spinners[handled.id]
    /\ twin = [lsp_progress |-> lsp_progress, spinners |-> spinners]

\* C23 (status untouched when messages are not displayed): with
\* display_messages off, handling a Begin, a Report or an End, with or
\* without a message, leaves the status line as it was.
C23_StatusUntouched ==
    [][/\ HandlesLsp
       /\ Head(incoming).call.kind \in {"begin", "report", "end"}
       /\ ~config.display_messages
       => status' = status]_vars

\* C25 (busy indicator): a server whose spinner runs has at least one
\* progress entry in the tracker.
C25_SpinnerHasProgress ==
    \A id \in ServerIds : spinners[id] => is_progressing(lsp_progress, id)

\* an End has emptied a server's entries and stopped its spinner, which was
\* started by a create, while the other server's spinner still runs
C25_Witness ==
    /\ handled.call.kind = "end"
    /\ ~is_progressing(lsp_progress, handled.id)
    /\ ~spinners[handled.id]
    /\ \E id \in ServerIds \ {handled.id} :
         spinners[id] /\ is_progressing(lsp_progress, id)

(***************************************************************************)
(* Further properties of SpecRender.                                       *)
(***************************************************************************)
\* the terminal is claimed: raw mode and the alternate screen are on
Claimed(t) == t.raw /\ t.alt

\* C24 (no render while restored): a handler that renders leaves the
\* terminal claimed; between a handled suspend signal and the following
\* resume signal no handler renders.
C24_NoRenderWhileRestored ==
    [][(TerminalDispatch \/ SignalDispatch("SIGTSTP")
        \/ SignalDispatch("SIGCONT") \/ JobDispatch)
       /\ last'.renders > 0
       => /\ Claimed(term')
          /\ suspended => SignalDispatch("SIGCONT")]_vars

====
